---- MODULE Spec2Model ----
(***************************************************************************)
(* FPV 24/7 storefront backend (src/main.py, src/schemas.py).              *)
(*                                                                         *)
(* State: the three collections of the document store (category,           *)
(* droneproduct, order), the module-level connection handle `db`, the      *)
(* ObjectId generator of the driver, the HTTP response of the request      *)
(* handled last, and the requests in flight.                               *)
(*                                                                         *)
(* Money is counted in mills (1/1000 of a dollar): 23.9 is 23900, and      *)
(* round(x, 2) rounds a mill amount to a whole number of cents.            *)
(* Strings that are inspected character by character (product ids) are    *)
(* sequences of character codes: 0..9 are '0'..'9', 10..15 are 'a'..'f',   *)
(* and 16 stands for a character that is no hex digit.                     *)
(***************************************************************************)
EXTENDS Integers, Sequences, FiniteSets, TLC

VARIABLES dbAvailable,   \* db is not None (database.db, fixed at import)
          oidRand,       \* the per-process random part of generated ObjectIds
          oidCtr,        \* the counter part of the next generated ObjectId
          category,      \* db["category"]: sequence of documents
          droneproduct,  \* db["droneproduct"]: sequence of documents
          order,         \* db["order"]: sequence of documents
          last,          \* the request handled last and its response
          reqs           \* requests in flight (one per worker thread)

vars == <<dbAvailable, oidRand, oidCtr, category, droneproduct, order, last, reqs>>

(***************************************************************************)
(* Bounds of the model.                                                    *)
(***************************************************************************)
OidLen == 3       \* characters of an ObjectId string (24 in the driver)
MaxItems == 2     \* longest cart a client submits
MaxOrders == 1    \* create_order requests that reach the insert
MaxLimit == 2     \* largest explicit `limit` besides the default
NumReq == 2       \* worker threads handling requests concurrently

DefaultLimit == 50

Max(a, b) == IF a >= b THEN a ELSE b
Min(a, b) == IF a <= b THEN a ELSE b
Abs(a) == IF a < 0 THEN 0 - a ELSE a

RECURSIVE SeqSum(_)
SeqSum(s) == IF s = <<>> THEN 0 ELSE s[1] + SeqSum(Tail(s))

(***************************************************************************)
(* Optional[T]: None is the empty sequence, a value v is <<v>>.            *)
(***************************************************************************)
None == <<>>
Some(v) == <<v>>

(***************************************************************************)
(* bson.ObjectId and its string form.                                      *)
(***************************************************************************)
HexDigit == 0..15
DecDigit == 0..9

\* ObjectId(s) accepts exactly the strings of OidLen hex digits
IsObjectId(s) == Len(s) = OidLen /\ \A i \in 1..Len(s) : s[i] \in HexDigit

\* the id the driver generates: process-random part followed by the counter
NewOid(rand, ctr) == [i \in 1..OidLen |-> IF i = OidLen THEN ctr ELSE rand]

AbsentOid == [i \in 1..OidLen |-> 15]    \* well formed, never generated
MalformedId == <<16>>                    \* not an ObjectId string

(***************************************************************************)
(* Python values of a Dict[str, int] entry before and after validation.    *)
(***************************************************************************)
PyStr(s) == [t |-> "str", v |-> s]
PyInt(n) == [t |-> "int", v |-> n]

RECURSIVE DecValue(_)
DecValue(s) == IF s = <<>> THEN 0
               ELSE DecValue(SubSeq(s, 1, Len(s) - 1)) * 10 + s[Len(s)]

\* pydantic's int validation: an int passes, a string of decimal digits is
\* parsed, any other string is rejected
IntCoercible(x) == \/ x.t = "int"
                   \/ x.t = "str" /\ x.v # <<>> /\ \A i \in 1..Len(x.v) : x.v[i] \in DecDigit
IntCoerce(x) == IF x.t = "int" THEN x ELSE PyInt(DecValue(x.v))

\* the OidLen-character decimal rendering of n (inverse of DecValue on ids)
RECURSIVE DecString(_, _)
DecString(n, len) == IF len = 0 THEN <<>>
                     ELSE Append(DecString(n \div 10, len - 1), n % 10)

\* round(x, 2) on a mill amount: to the nearest cent, ties to the even cent
Round2(m) == LET q == m \div 10
                 r == m % 10
             IN  IF r < 5 THEN q * 10
                 ELSE IF r > 5 THEN (q + 1) * 10
                 ELSE IF q % 2 = 0 THEN q * 10 ELSE (q + 1) * 10

(***************************************************************************)
(* Demo data of seed_demo.                                                 *)
(***************************************************************************)
DemoCategories ==
    << [slug |-> "custom-drones", name |-> "Custom Drones"],
       [slug |-> "frames",        name |-> "Frames"],
       [slug |-> "motors",        name |-> "Motors"],
       [slug |-> "batteries",     name |-> "Batteries"],
       [slug |-> "goggles",       name |-> "Goggles"] >>

DemoProducts ==
    << [title |-> "FPV 24/7 Raven 5", price |-> 499000, category |-> "custom-drones",
        in_stock |-> TRUE, stock_qty |-> 12, featured |-> TRUE],
       [title |-> "CineWhoop Mini", price |-> 389000, category |-> "custom-drones",
        in_stock |-> TRUE, stock_qty |-> 9, featured |-> TRUE],
       [title |-> "2207 1950KV Pro Motor", price |-> 23900, category |-> "motors",
        in_stock |-> TRUE, stock_qty |-> 120, featured |-> FALSE] >>

(***************************************************************************)
(* The document store adapter (module `database`).                         *)
(***************************************************************************)
\* collection.insert_one of a validated entity: the document gets a fresh _id
create_document(docs, oid, data) == Append(docs, [_id |-> oid] @@ data)

\* equality filter: a field of the query that is None is not constrained
Matches(doc, query) ==
    /\ query.category # None => doc.category = query.category[1]
    /\ query.featured # None => doc.featured = query.featured[1]

\* the cursor's limit: 0 is no limit, a negative limit counts as its magnitude
Limited(docs, limit) ==
    IF limit = 0 THEN docs ELSE SubSeq(docs, 1, Min(Abs(limit), Len(docs)))

\* find(filter).limit(limit), in the store's natural (insertion) order
get_documents(docs, query, limit) ==
    Limited(SelectSeq(docs, LAMBDA d : Matches(d, query)), limit)

\* update_one({"slug": c.slug}, {"$set": c}, upsert=True)
UpsertCategory(cats, c) ==
    IF \E i \in 1..Len(cats) : cats[i].slug = c.slug
    THEN LET k == CHOOSE i \in 1..Len(cats) :
                     /\ cats[i].slug = c.slug
                     /\ \A j \in 1..(i - 1) : cats[j].slug # c.slug
         IN  [cats EXCEPT ![k] = c]
    ELSE Append(cats, c)

\* find_one({"_id": ObjectId(pid)}) inside try/except: None when the handle
\* is None (subscripting None raises), when pid is no ObjectId string
\* (ObjectId raises) and when no document has that _id
FindOne(db, prods, pid) ==
    IF ~db \/ ~IsObjectId(pid) THEN None
    ELSE LET hit == SelectSeq(prods, LAMBDA d : d._id = pid)
         IN  IF hit = <<>> THEN None ELSE Some(hit[1])

(***************************************************************************)
(* Responses. `calls` lists the store calls the handler made.              *)
(***************************************************************************)
Response(op, args, status, body, calls) ==
    [op |-> op, args |-> args, status |-> status, body |-> body, calls |-> calls]

NoResponse == Response("none", <<>>, 0, <<>>, <<>>)

(***************************************************************************)
(* POST /seed                                                              *)
(***************************************************************************)
RECURSIVE UpsertAll(_, _)
UpsertAll(cats, cs) ==
    IF cs = <<>> THEN cats ELSE UpsertAll(UpsertCategory(cats, cs[1]), Tail(cs))

RECURSIVE InsertAll(_, _, _, _)
InsertAll(prods, rand, ctr, ps) ==
    IF ps = <<>> THEN prods
    ELSE InsertAll(create_document(prods, NewOid(rand, ctr), ps[1]), rand, ctr + 1, Tail(ps))

\* existing = list(db["droneproduct"].find({}).limit(1))
SeedExisting(prods) == Limited(prods, 1)

seed_demo(db, cats, prods, rand, ctr) ==
    IF ~db
    THEN [category |-> cats, droneproduct |-> prods, oidCtr |-> ctr,
          status |-> 500, body |-> "Database not configured"]
    ELSE IF SeedExisting(prods) # <<>>
    THEN [category |-> cats, droneproduct |-> prods, oidCtr |-> ctr,
          status |-> 200, body |-> "Products already seeded"]
    ELSE [category |-> UpsertAll(cats, DemoCategories),
          droneproduct |-> InsertAll(prods, rand, ctr, DemoProducts),
          oidCtr |-> ctr + Len(DemoProducts),
          status |-> 200, body |-> [inserted |-> Len(DemoProducts)]]

(***************************************************************************)
(* GET /products                                                           *)
(***************************************************************************)
\* BuildQuery without the category filter
BuildQuery_NoCategory(cat, featured) ==
    [category |-> None, featured |-> featured]

\* `if category:` is false for None and for the empty string;
\* `if featured is not None:` is false for None only
BuildQuery(cat, featured) ==
    [category |-> IF cat # None /\ cat[1] # "" THEN cat ELSE None,
     featured |-> featured]

\* DroneProductOut(id=str(_id), **d_copy)
DroneProductOut(d) ==
    [id |-> d._id, title |-> d.title, price |-> d.price, category |-> d.category,
     in_stock |-> d.in_stock, stock_qty |-> d.stock_qty, featured |-> d.featured]

ListResponse(db, prods, cat, featured, limit) ==
    LET query == BuildQuery(cat, featured)
        call  == [fn |-> "get_documents", query |-> query, limit |-> limit]
        docs  == get_documents(prods, query, limit)
    IN  IF ~db
        THEN [status |-> 500, body |-> "Database not available", calls |-> <<call>>]
        ELSE [status |-> 200,
              body |-> [i \in 1..Len(docs) |-> DroneProductOut(docs[i])],
              calls |-> <<call>>]

\* list_products removing from the collection the documents it returns
list_products_consuming(db, prods, cat, featured, limit) ==
    [droneproduct |->
        SelectSeq(prods, LAMBDA d : ~Matches(d, BuildQuery(cat, featured)))]
        @@ ListResponse(db, prods, cat, featured, limit)

list_products(db, prods, cat, featured, limit) ==
    [droneproduct |-> prods] @@ ListResponse(db, prods, cat, featured, limit)

(***************************************************************************)
(* POST /orders                                                            *)
(***************************************************************************)
\* LineTotal without the floor of 1 on the quantity
LineTotal_NoClamp(price, qty) == price * qty

\* float(doc.get("price", 0)) * max(1, item.qty)
LineTotal(price, qty) == price * Max(1, qty)

\* LookupStep skipping an unresolved item instead of raising
LookupStep_Skip(db, prods, acc, item) ==
    LET doc  == FindOne(db, prods, item.product_id)
        seen == Append(acc.calls, [fn |-> "find_one", id |-> item.product_id])
    IN  IF doc = None
        THEN [acc EXCEPT !.calls = seen]
        ELSE [acc EXCEPT !.total = @ + doc[1].price * Max(1, item.qty), !.calls = seen]

\* one pass of the loop body; acc.missing is set when the pass raises 404
LookupStep(db, prods, acc, item) ==
    LET doc  == FindOne(db, prods, item.product_id)
        seen == Append(acc.calls, [fn |-> "find_one", id |-> item.product_id])
    IN  IF doc = None
        THEN [acc EXCEPT !.missing = Some(item.product_id), !.calls = seen]
        ELSE [acc EXCEPT !.total = @ + LineTotal(doc[1].price, item.qty), !.calls = seen]

LoopStart == [total |-> 0, missing |-> None, calls |-> <<>>]

\* for item in payload.items: ... ; the raise leaves the loop
RECURSIVE PriceCart(_, _, _, _)
PriceCart(db, prods, items, acc) ==
    IF items = <<>> \/ acc.missing # None THEN acc
    ELSE PriceCart(db, prods, Tail(items), LookupStep(db, prods, acc, items[1]))

\* [{"product_id": i.product_id, "qty": i.qty} for i in payload.items]
OrderItems(items) ==
    [i \in 1..Len(items) |->
        [product_id |-> PyStr(items[i].product_id), qty |-> PyInt(items[i].qty)]]

\* OrderValid rejecting an empty item list
OrderValid_NonEmpty(email, raw, total) ==
    /\ raw # <<>>
    /\ \A i \in 1..Len(raw) : IntCoercible(raw[i].product_id) /\ IntCoercible(raw[i].qty)
    /\ total >= 0

\* Order(...) validates: items is List[Dict[str, int]], total >= 0
OrderValid(email, raw, total) ==
    /\ \A i \in 1..Len(raw) : IntCoercible(raw[i].product_id) /\ IntCoercible(raw[i].qty)
    /\ total >= 0

\* the validated entity: every value of an item dict is an int
Order(email, raw, total) ==
    [email |-> email,
     items |-> [i \in 1..Len(raw) |->
                  [product_id |-> IntCoerce(raw[i].product_id), qty |-> IntCoerce(raw[i].qty)]],
     total |-> total,
     status |-> "pending"]

\* the statements after the loop: build the Order, insert it, answer
PersistOrder(db, orders, rand, ctr, email, items, acc) ==
    LET raw   == OrderItems(items)
        total == Round2(acc.total)
    IN  IF ~OrderValid(email, raw, total)
        THEN [order |-> orders, oidCtr |-> ctr, status |-> 500,
              body |-> "ValidationError", calls |-> acc.calls]
        ELSE IF ~db
        THEN [order |-> orders, oidCtr |-> ctr, status |-> 500,
              body |-> "Database not available",
              calls |-> Append(acc.calls, [fn |-> "create_document"])]
        ELSE [order |-> create_document(orders, NewOid(rand, ctr), Order(email, raw, total)),
              oidCtr |-> ctr + 1, status |-> 200,
              body |-> [status |-> "ok", order_id |-> NewOid(rand, ctr)],
              calls |-> Append(acc.calls, [fn |-> "create_document"])]

NotFound(orders, ctr, acc) ==
    [order |-> orders, oidCtr |-> ctr, status |-> 404,
     body |-> acc.missing[1], calls |-> acc.calls]

PlaceOrder(db, prods, orders, rand, ctr, email, items) ==
    LET acc == PriceCart(db, prods, items, LoopStart)
    IN  IF acc.missing # None THEN NotFound(orders, ctr, acc)
        ELSE PersistOrder(db, orders, rand, ctr, email, items, acc)

\* create_order decrementing the stock of every product of the cart
create_order_stock(db, cats, prods, orders, rand, ctr, email, items) ==
    [category |-> cats,
     droneproduct |->
        [k \in 1..Len(prods) |->
            IF \E i \in 1..Len(items) : items[i].product_id = prods[k]._id
            THEN [prods[k] EXCEPT !.stock_qty = Max(0, @ - 1)]
            ELSE prods[k]]]
        @@ PlaceOrder(db, prods, orders, rand, ctr, email, items)

create_order(db, cats, prods, orders, rand, ctr, email, items) ==
    [category |-> cats, droneproduct |-> prods]
        @@ PlaceOrder(db, prods, orders, rand, ctr, email, items)

(***************************************************************************)
(* Inputs of the requests.                                                 *)
(***************************************************************************)
EmailInputs == {"pilot@fpv.io"}

\* cart items a client submits: the first stored product twice, the last
\* stored product with a quantity below 1, an id that is stored nowhere and
\* a string that is no id
CartItemInputs(prods) ==
    {[product_id |-> AbsentOid, qty |-> 1], [product_id |-> MalformedId, qty |-> 1]}
    \cup (IF prods = <<>> THEN {}
          ELSE {[product_id |-> prods[1]._id, qty |-> 2],
                [product_id |-> prods[Len(prods)]._id, qty |-> 0]})

CartInputs(prods) ==
    UNION {[1..n -> CartItemInputs(prods)] : n \in 0..MaxItems}

CategoryInputs == {None, Some(""), Some("custom-drones"), Some("motors"), Some("frames")}
FeaturedInputs == {None, Some(TRUE), Some(FALSE)}
LimitInputs == ((0 - 1)..MaxLimit) \cup {DefaultLimit}

Idle == [pc |-> "idle"]
Threads == 1..NumReq

Init ==
    /\ dbAvailable \in BOOLEAN
    /\ oidRand \in {0, 10}
    /\ oidCtr = 0
    /\ category = <<>>
    /\ droneproduct = <<>>
    /\ order = <<>>
    /\ last = NoResponse
    /\ reqs = [r \in Threads |-> Idle]

(***************************************************************************)
(* One action per handler, the request handled from arrival to response.   *)
(***************************************************************************)
Seed ==
    LET r == seed_demo(dbAvailable, category, droneproduct, oidRand, oidCtr)
    IN  /\ category' = r.category
        /\ droneproduct' = r.droneproduct
        /\ oidCtr' = r.oidCtr
        /\ last' = Response("seed_demo", <<>>, r.status, r.body, <<>>)
        /\ UNCHANGED <<dbAvailable, oidRand, order, reqs>>

ListProducts ==
    \E cat \in CategoryInputs, featured \in FeaturedInputs, limit \in LimitInputs :
        LET r == list_products(dbAvailable, droneproduct, cat, featured, limit)
        IN  /\ droneproduct' = r.droneproduct
            /\ last' = Response("list_products",
                                [category |-> cat, featured |-> featured, limit |-> limit],
                                r.status, r.body, r.calls)
            /\ UNCHANGED <<dbAvailable, oidRand, oidCtr, category, order, reqs>>

CreateOrder ==
    /\ Len(order) < MaxOrders
    /\ \E email \in EmailInputs, items \in CartInputs(droneproduct) :
        LET r == create_order(dbAvailable, category, droneproduct, order,
                              oidRand, oidCtr, email, items)
        IN  /\ category' = r.category
            /\ droneproduct' = r.droneproduct
            /\ order' = r.order
            /\ oidCtr' = r.oidCtr
            /\ last' = Response("create_order", [email |-> email, items |-> items],
                                r.status, r.body, r.calls)
            /\ UNCHANGED <<dbAvailable, oidRand, reqs>>

Next == Seed \/ ListProducts \/ CreateOrder

Spec == Init /\ [][Next]_vars

(***************************************************************************)
(* The handlers run in worker threads: between two store calls of one      *)
(* request any other request may run.  One action per store call of the   *)
(* handlers that make several (seed_demo, create_order).                   *)
(***************************************************************************)
Respond(r, resp) ==
    /\ reqs' = [reqs EXCEPT ![r] = Idle]
    /\ last' = resp

\* `if db is None` and the existence check of seed_demo
SeedCheck(r) ==
    /\ reqs[r].pc = "idle"
    /\ IF ~dbAvailable
       THEN Respond(r, Response("seed_demo", <<>>, 500, "Database not configured", <<>>))
       ELSE IF SeedExisting(droneproduct) # <<>>
       THEN Respond(r, Response("seed_demo", <<>>, 200, "Products already seeded", <<>>))
       ELSE /\ reqs' = [reqs EXCEPT ![r] = [pc |-> "seed_categories", i |-> 1]]
            /\ UNCHANGED last
    /\ UNCHANGED <<dbAvailable, oidRand, oidCtr, category, droneproduct, order>>

\* one update_one of the loop over categories
SeedCategory(r) ==
    /\ reqs[r].pc = "seed_categories"
    /\ category' = UpsertCategory(category, DemoCategories[reqs[r].i])
    /\ reqs' = [reqs EXCEPT ![r] =
                  IF reqs[r].i < Len(DemoCategories)
                  THEN [pc |-> "seed_categories", i |-> reqs[r].i + 1]
                  ELSE [pc |-> "seed_products", i |-> 1]]
    /\ UNCHANGED <<dbAvailable, oidRand, oidCtr, droneproduct, order, last>>

\* one create_document of the loop over products; the last one answers
SeedProduct(r) ==
    /\ reqs[r].pc = "seed_products"
    /\ droneproduct' = create_document(droneproduct, NewOid(oidRand, oidCtr),
                                       DemoProducts[reqs[r].i])
    /\ oidCtr' = oidCtr + 1
    /\ IF reqs[r].i < Len(DemoProducts)
       THEN /\ reqs' = [reqs EXCEPT ![r] = [pc |-> "seed_products", i |-> reqs[r].i + 1]]
            /\ UNCHANGED last
       ELSE Respond(r, Response("seed_demo", <<>>, 200,
                                [inserted |-> Len(DemoProducts)], <<>>))
    /\ UNCHANGED <<dbAvailable, oidRand, category, order>>

\* a POST /orders arrives: total = 0.0
OrderBegin(r) ==
    /\ reqs[r].pc = "idle"
    /\ Len(order) < MaxOrders
    /\ \E email \in EmailInputs, items \in CartInputs(droneproduct) :
        reqs' = [reqs EXCEPT ![r] = [pc |-> "order_loop", email |-> email, items |-> items,
                                      rest |-> items, acc |-> LoopStart]]
    /\ UNCHANGED <<dbAvailable, oidRand, oidCtr, category, droneproduct, order, last>>

\* one pass of the loop: find_one, then the 404 or the accumulation
OrderLookup(r) ==
    /\ reqs[r].pc = "order_loop"
    /\ reqs[r].rest # <<>>
    /\ LET acc == LookupStep(dbAvailable, droneproduct, reqs[r].acc, reqs[r].rest[1])
           res == NotFound(order, oidCtr, acc)
       IN  IF acc.missing # None
           THEN /\ Respond(r, Response("create_order",
                                       [email |-> reqs[r].email, items |-> reqs[r].items],
                                       res.status, res.body, res.calls))
                /\ order' = res.order
                /\ oidCtr' = res.oidCtr
           ELSE /\ reqs' = [reqs EXCEPT ![r].acc = acc, ![r].rest = Tail(reqs[r].rest)]
                /\ UNCHANGED <<order, oidCtr, last>>
    /\ UNCHANGED <<dbAvailable, oidRand, category, droneproduct>>

\* the loop is over: Order(...) and create_document("order", order)
OrderPersist(r) ==
    /\ reqs[r].pc = "order_loop"
    /\ reqs[r].rest = <<>>
    /\ LET res == PersistOrder(dbAvailable, order, oidRand, oidCtr,
                               reqs[r].email, reqs[r].items, reqs[r].acc)
       IN  /\ order' = res.order
           /\ oidCtr' = res.oidCtr
           /\ Respond(r, Response("create_order",
                                  [email |-> reqs[r].email, items |-> reqs[r].items],
                                  res.status, res.body, res.calls))
    /\ UNCHANGED <<dbAvailable, oidRand, category, droneproduct>>

ConcNext ==
    \E r \in Threads :
        \/ SeedCheck(r)
        \/ SeedCategory(r)
        \/ SeedProduct(r)
        \/ OrderBegin(r)
        \/ OrderLookup(r)
        \/ OrderPersist(r)

ConcSpec == Init /\ [][ConcNext]_vars

(***************************************************************************)
(* Properties.                                                             *)
(***************************************************************************)
\* the product id is the _id of a document of droneproduct
Stored(pid) == \E k \in 1..Len(droneproduct) : droneproduct[k]._id = pid

PriceOfStored(pid) ==
    droneproduct[CHOOSE k \in 1..Len(droneproduct) : droneproduct[k]._id = pid].price

\* the product a persisted item names: its product_id rendered as an id string
ItemOid(item) ==
    IF item.product_id.t = "int" THEN DecString(item.product_id.v, OidLen)
    ELSE item.product_id.v

LastIs(op) == last.op = op

\* C1: every document of the order collection has a total equal to the sum,
\* over its items, of the stored price of the item's product times
\* max(1, qty), rounded to 2 decimal places.
C1_OrderTotal ==
    \A k \in 1..Len(order) :
        LET items == order[k].items
        IN  /\ \A i \in 1..Len(items) : Stored(ItemOid(items[i]))
            /\ order[k].total =
                 Round2(SeqSum([i \in 1..Len(items) |->
                     PriceOfStored(ItemOid(items[i])) * Max(1, items[i].qty.v)]))

\* an order of two items is stored, one with a quantity below 1 and one with
\* a quantity above 1
C1_Witness ==
    \E k \in 1..Len(order) :
        /\ Len(order[k].items) = 2
        /\ \E i \in 1..2 : order[k].items[i].qty.v < 1
        /\ \E i \in 1..2 : order[k].items[i].qty.v > 1

\* C2: with the store available and every product_id of the cart stored,
\* create_order answers {status: "ok", order_id} and the order collection
\* ends with the new document: status "pending", the request's email, and the
\* items verbatim as {product_id (string), qty (integer)} pairs.
C2_OrderPersistedVerbatim ==
    (/\ LastIs("create_order")
     /\ dbAvailable
     /\ \A i \in 1..Len(last.args.items) : Stored(last.args.items[i].product_id))
    => /\ last.status = 200
       /\ last.body.status = "ok"
       /\ order # <<>>
       /\ LET doc == order[Len(order)]
              req == last.args
          IN  /\ doc._id = last.body.order_id
              /\ doc.status = "pending"
              /\ doc.email = req.email
              /\ Len(doc.items) = Len(req.items)
              /\ \A i \in 1..Len(req.items) :
                    /\ doc.items[i].product_id.t = "str"
                    /\ doc.items[i].product_id.v = req.items[i].product_id
                    /\ doc.items[i].qty.t = "int"
                    /\ doc.items[i].qty.v = req.items[i].qty

\* the first product_id of the cart that is not stored
FirstUnresolved(items) ==
    items[CHOOSE i \in 1..Len(items) :
              /\ ~Stored(items[i].product_id)
              /\ \A j \in 1..(i - 1) : Stored(items[j].product_id)].product_id

\* C3: a create_order whose cart holds a product_id that is not stored
\* answers 404 naming that product_id (the first such one of the cart) and
\* leaves the order collection as it was.
C3_NotFoundNoOrder ==
    [][(/\ last'.op = "create_order"
        /\ \E i \in 1..Len(last'.args.items) : ~Stored(last'.args.items[i].product_id))
       => /\ last'.status = 404
          /\ last'.body = FirstUnresolved(last'.args.items)
          /\ order' = order]_vars

\* a 404 for a cart whose first item is stored and whose second is not
C3_Witness ==
    /\ LastIs("create_order")
    /\ last.status = 404
    /\ Len(last.args.items) = 2
    /\ Stored(last.args.items[1].product_id)
    /\ ~Stored(last.args.items[2].product_id)
    /\ last.body = last.args.items[2].product_id

\* C4: with no store connection, create_order with a non-empty cart answers
\* with a server error (5xx), not with 404.
C4_UnavailableIsServerError ==
    (LastIs("create_order") /\ ~dbAvailable /\ last.args.items # <<>>)
    => (last.status >= 500 /\ last.status # 404)

\* the stored products a listing with category C and the given featured
\* filter has to return
Expected(C, featured) ==
    SelectSeq(droneproduct, LAMBDA d :
        d.category = C /\ (featured # None => d.featured = featured[1]))

\* every returned product has category C, is one of the expected ones, none
\* twice, and a positive limit cuts the result only when it is reached
ListsCategory(C) ==
    LET out  == last.body
        want == Expected(C, last.args.featured)
        lim  == last.args.limit
    IN  /\ \A i \in 1..Len(out) : out[i].category = C
        /\ \A i \in 1..Len(out) : \E k \in 1..Len(want) : want[k]._id = out[i].id
        /\ \A i, j \in 1..Len(out) : out[i].id = out[j].id => i = j
        /\ lim > 0 => Len(out) = Min(lim, Len(want))

\* C5 as stated: for every category value C passed to list_products, the
\* empty string included, the result is the stored products of category C
\* (that pass the featured filter), up to limit.
C5_AnyCategory ==
    (LastIs("list_products") /\ last.status = 200 /\ last.args.category # None)
    => ListsCategory(last.args.category[1])

\* C5 amended: for every non-empty category value C passed to list_products
\* the result is the stored products of category C (that pass the featured
\* filter), up to limit; an empty string is no category filter.
C5_NonEmptyCategory ==
    (/\ LastIs("list_products") /\ last.status = 200
     /\ last.args.category # None /\ last.args.category # Some(""))
    => ListsCategory(last.args.category[1])

\* a listing by category that leaves out a stored product of another category
C5_Witness ==
    /\ LastIs("list_products") /\ last.status = 200
    /\ last.args.category = Some("custom-drones")
    /\ last.args.featured = None
    /\ Len(last.body) = 2
    /\ Len(droneproduct) = 3

\* C6: list_products with a negative limit answers with an error and passes
\* no negative limit to the store query.
C6_NegativeLimitRejected ==
    (LastIs("list_products") /\ last.args.limit < 0)
    => /\ last.status # 200
       /\ \A c \in 1..Len(last.calls) : last.calls[c].limit >= 0

CatalogWrittenBySeedOnly ==
    [][/\ droneproduct' # droneproduct => \E r \in Threads : reqs[r].pc = "seed_products"
       /\ category' # category => \E r \in Threads : reqs[r].pc = "seed_categories"]_vars

C8_SeedIdempotent ==
    /\ \A i, j \in 1..Len(droneproduct) :
          droneproduct[i].title = droneproduct[j].title => i = j
    /\ ((\A r \in Threads : reqs[r].pc \notin {"seed_categories", "seed_products"})
        /\ droneproduct # <<>>)
       => Len(droneproduct) = Len(DemoProducts)

C10_EmptyCartAccepted ==
    (LastIs("create_order") /\ dbAvailable /\ last.args.items = <<>>)
    => /\ last.status = 200
       /\ last.body.status = "ok"
       /\ \A c \in 1..Len(last.calls) : last.calls[c].fn # "find_one"
       /\ order # <<>>
       /\ LET doc == order[Len(order)]
          IN  /\ doc._id = last.body.order_id
              /\ doc.items = <<>>
              /\ doc.total = 0
              /\ doc.status = "pending"

\* an empty cart was answered while the store is available
C10_Witness ==
    /\ LastIs("create_order")
    /\ dbAvailable
    /\ last.args.items = <<>>
    /\ last.status = 200
====
